---- MODULE Spec2Model ----
(***************************************************************************)
(* plot_columns (CR2_solutions.py): one call of the plotting function as a *)
(* state machine over the figure it builds, followed by the repeated       *)
(* invocations of the script's test section (same data and style list,     *)
(* another fig_type).                                                      *)
(*                                                                         *)
(* Column and surface indices are 0-based, as in the code.  The random RGB *)
(* colour of line 75 is drawn and handed to the trace; it selects nothing  *)
(* and is left out of the trace record.                                    *)
(***************************************************************************)
EXTENDS Integers, Sequences, FiniteSets, TLC

\* ---------------------------------------------------------------- bounds
\* Largest column count of the input tables that is explored.
MaxCols == 4
\* Number of successive calls of plot_columns made by the test section.
MaxCalls == 2

\* ---------------------------------------------------------------- inputs
\* fig_type values handed in: the two recognised ones and two that are not.
FigTypes == {"single", "subplots", "grid", "Single"}
\* plot_type entries handed in: the two recognised ones and two that are not.
Tags == {"line", "scatter", "bar", "Line"}

VARIABLES
    fig_type,    \* argument fig_type
    plot_num,    \* x.shape[1]
    plot_type,   \* argument plot_type, a function on 0..plot_num-1
    pc,          \* position in the body of plot_columns
    ax_num,      \* local ax_num, -1 while unassigned
    i,           \* loop variable, -1 while unassigned
    current_ax,  \* index of the surface current_ax refers to, -1 while unbound
    nsurf,       \* number of surfaces of the figure made by plt.subplots
    title,       \* title of each surface ("" when unset)
    xlabel,      \* x-axis label of each surface
    ylabel,      \* y-axis label of each surface
    traces,      \* traces drawn so far, in drawing order
    legend,      \* surfaces that carry a legend
    adjusted,    \* plt.subplots_adjust was applied
    shown,       \* number of plt.show() calls
    out,         \* messages printed, each a sequence of fragments
    events,      \* every library call and print of this call, in order
    calls        \* the completed earlier calls

vars == <<fig_type, plot_num, plot_type, pc, ax_num, i, current_ax, nsurf,
          title, xlabel, ylabel, traces, legend, adjusted, shown, out,
          events, calls>>

\* ---------------------------------------------------------------- helpers
Digit == <<"0", "1", "2", "3", "4", "5", "6", "7", "8", "9">>

\* str(n) of a natural number, as the f-strings format it.
RECURSIVE Str(_)
Str(n) == IF n < 10 THEN Digit[n + 1] ELSE Str(n \div 10) \o Digit[(n % 10) + 1]

\* f'Plot {i}': the per-plot title and the trace label.
PlotLabel(k) == "Plot " \o Str(k)

\* The marker palette of line 56.
markers == <<".", "x", "s", "+", "d", "v", "^", ">", "<", "p">>

\* Variant: the marker chosen by rank among the scatter columns.
MarkerByRank(k) ==
    markers[Cardinality({m \in 0 .. k - 1 : plot_type[m] = "scatter"}) + 1]

\* markers[i] of line 84.
Marker(k) == markers[k + 1]

\* The message of line 48: a fixed text.
FigTypeMessage ==
    <<"Please specify a figure type as either \"single\" or \"subplots\".">>

\* Variant: the message interpolates the column index twice.
PlotTypeMessageIndexOnly(k, tag) ==
    <<"Plot ", Str(k), " has the type \"", Str(k),
      "\"; make sure it is either \"line\" or \"scatter\".">>

\* The message of line 90: the f-string's literal and interpolated fragments.
PlotTypeMessage(k, tag) ==
    <<"Plot ", Str(k), " has the type \"", tag,
      "\"; make sure it is either \"line\" or \"scatter\".">>

Event(op, ax, val) == [op |-> op, ax |-> ax, val |-> val]

Blank(n) == [k \in 0 .. n - 1 |-> ""]

\* Variant: the second branch written as a plain else.
RecognisedFigTypeElse(ft) == TRUE

\* Lines 40-46: fig_type takes one of the two branches that set ax_num.
RecognisedFigType(ft) == ft \in {"single", "subplots"}

\* Lines 78-88: the style tag takes one of the two drawing branches.
RecognisedPlotType(tag) == tag \in {"line", "scatter"}

\* Variant: one surface per column in either mode.
AxNumPerColumn(ft, n) == n

\* Lines 40-45: the number of axes for a recognised fig_type.
AxNum(ft, n) == IF ft = "single" THEN 1 ELSE n

\* Variant: the test made on fig_type instead of ax_num.
SoleAxByFigType(axn, ft) == ft = "single"

\* Line 62: whether every column goes to the sole surface.
SoleAx(axn, ft) == axn = 1

\* Lines 65/69: the surface column k is drawn on.
SurfaceOf(axn, ft, k) == IF SoleAx(axn, ft) THEN 0 ELSE k

\* Variant: the legend attached for a single column too.
NeedsLegendAlways(n) == n >= 1

\* Line 105: whether a legend is attached in single-axis mode.
NeedsLegend(n) == n > 1

\* Variant: the loop stops one column short.
AfterColumnShort(j) == IF j + 1 < plot_num THEN "select" ELSE "xlabel"

\* range(plot_num) of line 59: where control goes after j columns are done.
AfterColumn(j) == IF j < plot_num THEN "select" ELSE "xlabel"

\* Variant: break instead of return.
AfterBadPlotTypeBreak == "xlabel"

\* Line 91: where control goes after the message about a style tag.
AfterBadPlotType == "returned"

\* Variant: the x-axis label put on the first surface.
XLabelTargetFirst ==
    CHOOSE k \in DOMAIN xlabel : \A m \in DOMAIN xlabel : k <= m

\* Line 98: the surface that receives the x-axis label.
XLabelTarget == current_ax

\* ---------------------------------------------------------------- Init
NoFigure ==
    /\ pc = "entry"
    /\ ax_num = -1
    /\ i = -1
    /\ current_ax = -1
    /\ nsurf = 0
    /\ title = Blank(0)
    /\ xlabel = Blank(0)
    /\ ylabel = Blank(0)
    /\ traces = <<>>
    /\ legend = {}
    /\ adjusted = FALSE
    /\ shown = 0
    /\ out = <<>>
    /\ events = <<>>

Init ==
    /\ fig_type \in FigTypes
    /\ plot_num \in 0 .. MaxCols
    /\ plot_type \in [0 .. plot_num - 1 -> Tags]
    /\ NoFigure
    /\ calls = <<>>

\* ---------------------------------------------------------------- actions
\* Lines 38-49: pick ax_num, or print and return on an unrecognised fig_type.
Validate ==
    /\ pc = "entry"
    /\ IF RecognisedFigType(fig_type)
       THEN /\ ax_num' = AxNum(fig_type, plot_num)
            /\ pc' = "allocate"
            /\ UNCHANGED <<out, events>>
       ELSE /\ out' = Append(out, FigTypeMessage)
            /\ events' = Append(events, Event("print", -1, ""))
            /\ pc' = "returned"
            /\ UNCHANGED ax_num
    /\ UNCHANGED <<fig_type, plot_num, plot_type, i, current_ax, nsurf, title,
                   xlabel, ylabel, traces, legend, adjusted, shown, calls>>

\* Lines 53-59: plt.subplots(ax_num, 1) makes the surfaces; the loop starts.
Allocate ==
    /\ pc = "allocate"
    /\ ax_num >= 1
    /\ nsurf' = ax_num
    /\ title' = Blank(ax_num)
    /\ xlabel' = Blank(ax_num)
    /\ ylabel' = Blank(ax_num)
    /\ events' = Append(events, Event("subplots", -1, Str(ax_num)))
    /\ i' = IF plot_num > 0 THEN 0 ELSE i
    /\ pc' = AfterColumn(0)
    /\ UNCHANGED <<fig_type, plot_num, plot_type, ax_num, current_ax, traces,
                   legend, adjusted, shown, out, calls>>

\* Line 53 with no column in "subplots" mode: plt.subplots(0, 1) has no grid
\* to build and raises.
AllocateNone ==
    /\ pc = "allocate"
    /\ ax_num = 0
    /\ pc' = "raised"
    /\ UNCHANGED <<fig_type, plot_num, plot_type, ax_num, i, current_ax, nsurf,
                   title, xlabel, ylabel, traces, legend, adjusted, shown, out,
                   events, calls>>

\* Variant: the surface is labelled only once its style tag is known to be
\* recognised.
SelectAxChecked ==
    /\ pc = "select"
    /\ current_ax' = SurfaceOf(ax_num, fig_type, i)
    /\ IF SoleAx(ax_num, fig_type) \/ ~RecognisedPlotType(plot_type[i])
       THEN UNCHANGED <<title, ylabel, events>>
       ELSE /\ title' = [title EXCEPT ![i] = PlotLabel(i)]
            /\ ylabel' = [ylabel EXCEPT ![i] = "y"]
            /\ events' = events \o <<Event("set_title", i, PlotLabel(i)),
                                     Event("set_ylabel", i, "y")>>
    /\ pc' = "dispatch"
    /\ UNCHANGED <<fig_type, plot_num, plot_type, ax_num, i, nsurf, xlabel,
                   traces, legend, adjusted, shown, out, calls>>

\* Lines 61-72: choose the surface of column i; label it when there are several.
SelectAx ==
    /\ pc = "select"
    /\ current_ax' = SurfaceOf(ax_num, fig_type, i)
    /\ IF SoleAx(ax_num, fig_type)
       THEN UNCHANGED <<title, ylabel, events>>
       ELSE /\ title' = [title EXCEPT ![i] = PlotLabel(i)]
            /\ ylabel' = [ylabel EXCEPT ![i] = "y"]
            /\ events' = events \o <<Event("set_title", i, PlotLabel(i)),
                                     Event("set_ylabel", i, "y")>>
    /\ pc' = "dispatch"
    /\ UNCHANGED <<fig_type, plot_num, plot_type, ax_num, i, nsurf, xlabel,
                   traces, legend, adjusted, shown, out, calls>>

\* Lines 78-80: a line trace for column i.
PlotLine ==
    /\ pc = "dispatch"
    /\ plot_type[i] = "line"
    /\ traces' = Append(traces, [col |-> i, kind |-> "line", marker |-> "",
                                 ax |-> current_ax, label |-> PlotLabel(i)])
    /\ events' = Append(events, Event("plot", current_ax, PlotLabel(i)))
    /\ i' = IF i + 1 < plot_num THEN i + 1 ELSE i
    /\ pc' = AfterColumn(i + 1)
    /\ UNCHANGED <<fig_type, plot_num, plot_type, ax_num, current_ax, nsurf,
                   title, xlabel, ylabel, legend, adjusted, shown, out, calls>>

\* Lines 82-84: a scatter trace for column i, with the marker of position i.
PlotScatter ==
    /\ pc = "dispatch"
    /\ plot_type[i] = "scatter"
    /\ traces' = Append(traces, [col |-> i, kind |-> "scatter",
                                 marker |-> Marker(i), ax |-> current_ax,
                                 label |-> PlotLabel(i)])
    /\ events' = Append(events, Event("scatter", current_ax,
                                      PlotLabel(i) \o " " \o Marker(i)))
    /\ i' = IF i + 1 < plot_num THEN i + 1 ELSE i
    /\ pc' = AfterColumn(i + 1)
    /\ UNCHANGED <<fig_type, plot_num, plot_type, ax_num, current_ax, nsurf,
                   title, xlabel, ylabel, legend, adjusted, shown, out, calls>>

\* Lines 88-91: an unrecognised style tag: print and return.
BadPlotType ==
    /\ pc = "dispatch"
    /\ ~RecognisedPlotType(plot_type[i])
    /\ out' = Append(out, PlotTypeMessage(i, plot_type[i]))
    /\ events' = Append(events, Event("print", -1, ""))
    /\ pc' = AfterBadPlotType
    /\ UNCHANGED <<fig_type, plot_num, plot_type, ax_num, i, current_ax, nsurf,
                   title, xlabel, ylabel, traces, legend, adjusted, shown,
                   calls>>

\* Line 98: the x-axis label of the last surface used.
LabelX ==
    /\ pc = "xlabel"
    /\ current_ax # -1
    /\ xlabel' = [xlabel EXCEPT ![XLabelTarget] = "x"]
    /\ events' = Append(events, Event("set_xlabel", XLabelTarget, "x"))
    /\ pc' = "finish"
    /\ UNCHANGED <<fig_type, plot_num, plot_type, ax_num, i, current_ax, nsurf,
                   title, ylabel, traces, legend, adjusted, shown, out, calls>>

\* Line 98 after a loop that never ran: current_ax is unbound and the read
\* raises UnboundLocalError.
LabelXUnbound ==
    /\ pc = "xlabel"
    /\ current_ax = -1
    /\ pc' = "raised"
    /\ UNCHANGED <<fig_type, plot_num, plot_type, ax_num, i, current_ax, nsurf,
                   title, xlabel, ylabel, traces, legend, adjusted, shown, out,
                   events, calls>>

\* Lines 101-110: title, y label and legend of the sole surface, or the
\* margins of the subplots.
Finish ==
    /\ pc = "finish"
    /\ IF ax_num = 1
       THEN /\ title' = [title EXCEPT ![current_ax] = "x vs. y, column-wise"]
            /\ ylabel' = [ylabel EXCEPT ![current_ax] = "y"]
            /\ legend' = IF NeedsLegend(plot_num)
                         THEN legend \cup {current_ax} ELSE legend
            /\ events' = events
                 \o <<Event("set_title", current_ax, "x vs. y, column-wise"),
                      Event("set_ylabel", current_ax, "y")>>
                 \o (IF NeedsLegend(plot_num)
                     THEN <<Event("legend", current_ax, "")>> ELSE <<>>)
            /\ UNCHANGED adjusted
       ELSE /\ adjusted' = TRUE
            /\ events' = Append(events, Event("subplots_adjust", -1, ""))
            /\ UNCHANGED <<title, ylabel, legend>>
    /\ pc' = "show"
    /\ UNCHANGED <<fig_type, plot_num, plot_type, ax_num, i, current_ax, nsurf,
                   xlabel, traces, shown, out, calls>>

\* Line 113: plt.show(), then the function returns None.
Show ==
    /\ pc = "show"
    /\ shown' = shown + 1
    /\ events' = Append(events, Event("show", -1, ""))
    /\ pc' = "returned"
    /\ UNCHANGED <<fig_type, plot_num, plot_type, ax_num, i, current_ax, nsurf,
                   title, xlabel, ylabel, traces, legend, adjusted, out, calls>>

\* What a completed call leaves for comparison with later ones.
CallRecord ==
    [fig_type |-> fig_type, events |-> events, out |-> out, nsurf |-> nsurf,
     shown |-> shown]

\* Lines 150-177: the test section calls plot_columns again on the same
\* columns and style list with another fig_type; each call builds a new figure.
Call ==
    /\ pc = "returned"
    /\ Len(calls) + 1 < MaxCalls
    /\ calls' = Append(calls, CallRecord)
    /\ \E ft \in FigTypes \ {fig_type} : fig_type' = ft
    /\ pc' = "entry"
    /\ ax_num' = -1
    /\ i' = -1
    /\ current_ax' = -1
    /\ nsurf' = 0
    /\ title' = Blank(0)
    /\ xlabel' = Blank(0)
    /\ ylabel' = Blank(0)
    /\ traces' = <<>>
    /\ legend' = {}
    /\ adjusted' = FALSE
    /\ shown' = 0
    /\ out' = <<>>
    /\ events' = <<>>
    /\ UNCHANGED <<plot_num, plot_type>>

Next ==
    \/ Validate
    \/ Allocate
    \/ AllocateNone
    \/ SelectAx
    \/ PlotLine
    \/ PlotScatter
    \/ BadPlotType
    \/ LabelX
    \/ LabelXUnbound
    \/ Finish
    \/ Show
    \/ Call

Spec == Init /\ [][Next]_vars

\* The body of plot_columns is straight-line synchronous code: once entered it
\* runs on to a return or a raise.  The test section may stop calling.
Body ==
    \/ Validate
    \/ Allocate
    \/ AllocateNone
    \/ SelectAx
    \/ PlotLine
    \/ PlotScatter
    \/ BadPlotType
    \/ LabelX
    \/ LabelXUnbound
    \/ Finish
    \/ Show

FairSpec == Spec /\ WF_vars(Body)

\* ---------------------------------------------------------------- typing
TypeOK ==
    /\ fig_type \in FigTypes
    /\ plot_num \in 0 .. MaxCols
    /\ DOMAIN plot_type = 0 .. plot_num - 1
    /\ pc \in {"entry", "allocate", "select", "dispatch", "xlabel", "finish",
               "show", "returned", "raised"}
    /\ nsurf \in 0 .. MaxCols
    /\ shown \in 0 .. 1
    /\ Len(calls) < MaxCalls

\* ---------------------------------------------------------------- properties
\* Vocabulary of the properties, stated on the inputs and the figure alone.
ValidFig == fig_type \in {"single", "subplots"}
ValidTag(tag) == tag \in {"line", "scatter"}
Cols == 0 .. plot_num - 1
BadCols == {k \in Cols : ~ValidTag(plot_type[k])}
FirstBad == CHOOSE k \in BadCols : \A m \in BadCols : k <= m
Ops(S) == {k \in DOMAIN events : events[k].op \in S}
Count(S) == Cardinality(Ops(S))
Titled == {k \in DOMAIN title : title[k] # ""}
XLabelled == {k \in DOMAIN xlabel : xlabel[k] # ""}
YLabelled == {k \in DOMAIN ylabel : ylabel[k] # ""}
Names(msg, v) == \E k \in DOMAIN msg : msg[k] = v
Displayed == pc = "returned" /\ shown = 1

\* C1: with a fig_type that is neither "single" nor "subplots", whatever the
\* column count and style list, the call goes from entry straight to its
\* return: one message is printed, and no surface is allocated, no trace is
\* drawn, no title, label or legend is set, no margin is adjusted and nothing
\* is displayed.
C1_InvalidFigTypePlotsNothing ==
    ~ValidFig =>
        /\ pc \in {"entry", "returned"}
        /\ nsurf = 0
        /\ traces = <<>>
        /\ Titled = {} /\ XLabelled = {} /\ YLabelled = {}
        /\ legend = {}
        /\ ~adjusted
        /\ shown = 0
        /\ Ops({"subplots", "plot", "scatter", "set_title", "set_xlabel",
                "set_ylabel", "legend", "subplots_adjust", "show"}) = {}
        /\ pc = "returned" => Len(out) = 1 /\ Count({"print"}) = 1

C1_Witness ==
    /\ ~ValidFig
    /\ pc = "returned"
    /\ plot_num = 3
    /\ BadCols # {} /\ BadCols # Cols
    /\ Len(out) = 1

\* C2: plt.subplots is called at most once per call of plot_columns, as the
\* first library call and before any column is selected or drawn; it makes
\* exactly 1 surface when fig_type is "single", whatever the column count, and
\* exactly plot_num surfaces when fig_type is "subplots".
C2_SurfaceCount ==
    /\ Count({"subplots"}) <= 1
    /\ nsurf = (IF Count({"subplots"}) = 0 THEN 0
                ELSE IF fig_type = "single" THEN 1 ELSE plot_num)
    /\ pc \in {"select", "dispatch", "xlabel", "finish", "show"}
         => Count({"subplots"}) = 1
    /\ (ValidFig /\ pc = "returned") => Count({"subplots"}) = 1
    /\ events # <<>> /\ ValidFig => events[1].op = "subplots"
    /\ (fig_type = "single" /\ pc \in {"returned", "raised"}) => nsurf = 1
    /\ (fig_type = "subplots" /\ pc \in {"returned", "raised"})
         => nsurf = plot_num

C2_Witness ==
    /\ fig_type = "subplots"
    /\ plot_num = 3
    /\ pc = "returned"
    /\ nsurf = 3
    /\ Len(traces) = 3
    /\ calls # <<>> /\ calls[1].fig_type = "single" /\ calls[1].nsurf = 1

\* C3: with a valid fig_type and a first unrecognised style tag at column b,
\* no column >= b is ever drawn and nothing is ever displayed; when the call
\* returns, exactly the columns 0..b-1 have been drawn, in order, and the one
\* message printed names column b and its tag.
C3_StyleTagAbort ==
    (ValidFig /\ BadCols # {}) =>
        /\ \A k \in DOMAIN traces : traces[k].col < FirstBad
        /\ shown = 0 /\ Ops({"show"}) = {}
        /\ pc \notin {"xlabel", "finish", "show", "raised"}
        /\ pc = "returned" =>
             /\ Len(traces) = FirstBad
             /\ \A k \in DOMAIN traces : traces[k].col = k - 1
             /\ Len(out) = 1
             /\ Names(out[1], Str(FirstBad))
             /\ Names(out[1], plot_type[FirstBad])

\* The scenario of the specification: an invalid tag at index 2 of 4.
C3_Witness ==
    /\ fig_type = "single"
    /\ plot_num = 4
    /\ BadCols = {2, 3}
    /\ pc = "returned"
    /\ Len(traces) = 2
    /\ traces[1].col = 0 /\ traces[2].col = 1

\* C4: a legend is attached only by a call with fig_type "single" and more
\* than one column, and only on its way to display; a displayed figure
\* carries a legend exactly when fig_type is "single" and plot_num > 1.
C4_LegendPresence ==
    /\ legend # {} =>
         /\ fig_type = "single" /\ plot_num > 1
         /\ BadCols = {}
         /\ pc \in {"show", "returned"}
         /\ legend = {0}
    /\ Displayed => (legend # {} <=> (fig_type = "single" /\ plot_num > 1))
    /\ (legend # {}) <=> (Ops({"legend"}) # {})

C4_Witness ==
    /\ Displayed
    /\ fig_type = "single"
    /\ plot_num = 2
    /\ legend = {0}
    /\ calls # <<>> /\ calls[1].fig_type = "subplots" /\ calls[1].shown = 1

\* C5: with one column, a call with fig_type "subplots" and a call with
\* fig_type "single" on the same column and style tag perform the same
\* sequence of library calls and prints: at every point of the later call its
\* effects so far are a prefix of the earlier call's, and on return the two
\* sequences, the messages, the surface counts and the displays are equal.
IsPrefix(a, b) == Len(a) <= Len(b) /\ SubSeq(b, 1, Len(a)) = a

C5_OneColumnSubplotsIsSingle ==
    \A c \in DOMAIN calls :
        (plot_num = 1 /\ {calls[c].fig_type, fig_type} = {"single", "subplots"})
        => /\ IsPrefix(events, calls[c].events)
           /\ IsPrefix(out, calls[c].out)
           /\ pc # "raised"
           /\ pc = "returned" =>
                /\ events = calls[c].events
                /\ out = calls[c].out
                /\ nsurf = calls[c].nsurf
                /\ shown = calls[c].shown

C5_Witness ==
    /\ plot_num = 1
    /\ plot_type[0] = "scatter"
    /\ calls # <<>> /\ calls[1].fig_type = "single" /\ calls[1].shown = 1
    /\ fig_type = "subplots"
    /\ Displayed
    /\ events = calls[1].events

\* C6 as stated: on either invalid input the call prints one message that
\* names the bad value it received (the fig_type, or the first bad style tag)
\* and returns without raising.
BadValue == IF ~ValidFig THEN fig_type ELSE plot_type[FirstBad]

C6_BothMessagesNameBadValue ==
    (~ValidFig \/ BadCols # {}) =>
        /\ pc # "raised"
        /\ pc = "returned" => Len(out) = 1 /\ Names(out[1], BadValue)

\* C6, amended: on either invalid input the call prints exactly one message as
\* its last effect, displays nothing and returns without raising; the message
\* about a style tag names the column and the tag received, the message about
\* fig_type is a fixed text that does not contain the value received.
C6_BothInvalidInputsPrintAndReturn ==
    (~ValidFig \/ BadCols # {}) =>
        /\ pc # "raised"
        /\ shown = 0
        /\ pc = "returned" =>
             /\ Len(out) = 1
             /\ Count({"print"}) = 1
             /\ events[Len(events)].op = "print"
             /\ IF ValidFig
                THEN /\ Names(out[1], plot_type[FirstBad])
                     /\ Names(out[1], Str(FirstBad))
                ELSE /\ ~Names(out[1], fig_type)
                     /\ Len(out[1]) = 1

C6_Witness ==
    /\ pc = "returned"
    /\ fig_type = "single"
    /\ plot_num = 2
    /\ plot_type[0] = "line" /\ plot_type[1] = "bar"
    /\ Names(out[1], "bar")
    /\ calls # <<>> /\ calls[1].fig_type = "grid"
    /\ Len(calls[1].out) = 1 /\ ~Names(calls[1].out[1], "grid")

\* C7: on every displayed figure each column k contributed exactly one trace,
\* the (k+1)-th drawn: a line trace for "line", a scatter trace for "scatter"
\* with the marker at palette index k, lying on the sole surface when there is
\* one surface and on surface k otherwise.
C7_OneTracePerColumn ==
    Displayed =>
        /\ Len(traces) = plot_num
        /\ \A k \in Cols :
             /\ traces[k + 1].col = k
             /\ traces[k + 1].kind = plot_type[k]
             /\ traces[k + 1].marker =
                  (IF plot_type[k] = "scatter" THEN markers[k + 1] ELSE "")
             /\ traces[k + 1].ax = (IF nsurf = 1 THEN 0 ELSE k)
        /\ Count({"plot", "scatter"}) = plot_num

C7_Witness ==
    /\ Displayed
    /\ fig_type = "subplots"
    /\ plot_num = 4
    /\ plot_type[0] = "line" /\ plot_type[1] = "scatter"
    /\ plot_type[2] = "line" /\ plot_type[3] = "scatter"
    /\ traces[4].marker = "+" /\ traces[4].ax = 3
    /\ traces[2].marker = "x"

\* C8: on a displayed figure of a "subplots" call with n > 1 columns every
\* surface k is titled "Plot k" (pairwise distinct titles) and has the y-axis
\* label, and only surface n-1 has the x-axis label; on a displayed figure
\* with one surface that surface has the x-axis label, the y-axis label and
\* the overall title.
C8_LabelsOnCompletion ==
    /\ (Displayed /\ fig_type = "subplots" /\ plot_num > 1) =>
         /\ nsurf = plot_num
         /\ \A k \in Cols : title[k] = PlotLabel(k) /\ ylabel[k] = "y"
         /\ \A j, k \in Cols : j # k => title[j] # title[k]
         /\ XLabelled = {plot_num - 1}
         /\ xlabel[plot_num - 1] = "x"
         /\ title[0] = "Plot 0" /\ title[1] = "Plot 1"
    /\ (Displayed /\ nsurf = 1) =>
         /\ xlabel[0] = "x"
         /\ ylabel[0] = "y"
         /\ title[0] = "x vs. y, column-wise"

\* The scenario of the specification: "subplots", three columns,
\* line / scatter / line.
C8_Witness ==
    /\ Displayed
    /\ fig_type = "subplots"
    /\ plot_num = 3
    /\ plot_type[0] = "line" /\ plot_type[1] = "scatter" /\ plot_type[2] = "line"
    /\ Titled = {0, 1, 2}
    /\ XLabelled = {2}
    /\ calls # <<>> /\ calls[1].fig_type = "single" /\ calls[1].nsurf = 1

\* C9: a call with at least one column never raises and ends in exactly one
\* of three outcomes: invalid-layout abort, style-tag abort, or display.  The
\* figure is displayed at most once, only in the third outcome and as the last
\* effect of the call: after every column has been drawn and after the x-axis
\* label and the title (with the legend when due) or the margin adjustment.  A
\* figure left partially drawn by a style-tag abort is not displayed.  Every
\* call that is entered returns.
LayoutAbort ==
    /\ ~ValidFig
    /\ shown = 0
    /\ Len(events) = 1 /\ events[1].op = "print"

StyleAbort ==
    /\ ValidFig /\ BadCols # {}
    /\ shown = 0
    /\ events[Len(events)].op = "print"
    /\ Len(traces) = FirstBad

Display ==
    /\ ValidFig /\ BadCols = {}
    /\ shown = 1
    /\ events[Len(events)].op = "show"

C9_State ==
    plot_num >= 1 =>
        /\ pc # "raised"
        /\ shown <= 1 /\ Count({"show"}) = shown
        /\ \A k \in Ops({"show"}) : k = Len(events)
        /\ shown = 1 =>
             /\ pc = "returned"
             /\ ValidFig /\ BadCols = {}
             /\ Len(traces) = plot_num
             /\ Count({"set_xlabel"}) = 1
             /\ IF nsurf = 1
                THEN /\ title[0] = "x vs. y, column-wise"
                     /\ (plot_num > 1 => legend = {0})
                     /\ ~adjusted
                ELSE adjusted /\ legend = {}
        /\ pc = "returned" =>
             /\ LayoutAbort \/ StyleAbort \/ Display
             /\ ~(LayoutAbort /\ StyleAbort)
             /\ ~(LayoutAbort /\ Display)
             /\ ~(StyleAbort /\ Display)

C9_ThreeOutcomes ==
    /\ []C9_State
    /\ (pc = "entry" /\ plot_num >= 1) ~> (pc = "returned")

C9_Witness ==
    /\ plot_num = 3
    /\ pc = "returned"
    /\ Display
    /\ fig_type = "subplots"
    /\ adjusted
    /\ calls # <<>> /\ calls[1].fig_type = "Single" /\ calls[1].shown = 0

\* C10: style tags are checked per column, after the column's surface has
\* been selected and labelled.  With several surfaces and a first unrecognised
\* tag at column b, on return surfaces 0..b have their per-plot title and
\* y-axis label, surface b holds no trace, the surfaces after b are untitled,
\* no surface has an x-axis label, and the message follows the labelling of
\* surface b directly.  With a single surface an aborted call leaves it with
\* no title, no axis label and no legend.
C10_LazyStyleCheck ==
    (ValidFig /\ BadCols # {} /\ pc = "returned") =>
        IF nsurf > 1
        THEN /\ Titled = 0 .. FirstBad
             /\ YLabelled = 0 .. FirstBad
             /\ \A k \in 0 .. FirstBad : title[k] = PlotLabel(k)
             /\ \A k \in DOMAIN traces : traces[k].ax # FirstBad
             /\ XLabelled = {}
             /\ legend = {}
             /\ Len(events) >= 3
             /\ events[Len(events) - 1] = Event("set_ylabel", FirstBad, "y")
             /\ events[Len(events) - 2].op = "set_title"
        ELSE /\ nsurf = 1
             /\ Titled = {} /\ XLabelled = {} /\ YLabelled = {}
             /\ legend = {}

C10_Witness ==
    /\ fig_type = "subplots"
    /\ plot_num = 4
    /\ BadCols = {1, 3}
    /\ pc = "returned"
    /\ Titled = {0, 1}
    /\ Len(traces) = 1
    /\ calls # <<>> /\ calls[1].fig_type = "single" /\ calls[1].shown = 0
====
